---------------------------- MODULE Spec2Model ----------------------------
(***************************************************************************)
(* A model of stlcut (src/stlcut.cpp): a triangle mesh is cut by a plane   *)
(* into an upper and a lower half, and the hole is capped.                 *)
(*                                                                         *)
(* Coordinates are integers.  The inputs are drawn from grids on which     *)
(* every line/plane intersection the program computes is an integer point, *)
(* so the arithmetic of the model is exact (no floating-point rounding).   *)
(* The tolerance of the stitching stage is kept in quarter units, i.e. the *)
(* variable tolerance holds 4 times the program's value, so that the       *)
(* program's division by 4 is exact as well.                               *)
(***************************************************************************)
EXTENDS Integers, Sequences, FiniteSets, Bags, TLC

VARIABLES
  input,      \* stl_in.facet_start: the facets read from the file
  i,          \* number of facets already handed to separate
  upper,      \* std::deque<stl_facet> upper
  lower,      \* std::deque<stl_facet> lower
  border,     \* std::set<stl_vertex_pair> border
  origin,     \* projection origin
  tolerance,  \* matching tolerance, in quarter units
  border2d,   \* std::deque<stl_vertex_pair> border2d
  polyline,   \* std::deque<stl_vertex> polyline
  triangles,  \* the triangles returned by the triangulator
  j,          \* number of cap triangles already appended
  ub,         \* TRUE once the run has read an element of an empty container
  pc          \* position in main

vars == <<input, i, upper, lower, border, origin, tolerance, border2d,
          polyline, triangles, j, ub, pc>>

-----------------------------------------------------------------------------
(* Bounds of the model *)

\* vertices of the single-facet and tetrahedron inputs have z in -MaxZ..MaxZ
MaxZ == 1

\* the border loops fed to the stitching stage have 3..MaxLoop vertices
MaxLoop == 4

-----------------------------------------------------------------------------
(* Vertices, vectors, facets *)

Vtx(px, py, pz) == [x |-> px, y |-> py, z |-> pz]

ABS(n) == IF n < 0 THEN -n ELSE n

STL_MIN(m, n) == IF m < n THEN m ELSE n

\* exact quotient n/d of two integers, d # 0, d dividing n
Quot(n, d) == IF d < 0 THEN (-n) \div (-d) ELSE n \div d

dot(a, b) == a.x * b.x + a.y * b.y + a.z * b.z

\* the three positions of a vertex relative to the plane
above == "above"
on == "on"
below == "below"

\* the plane a*x + b*y + c*z + d = 0 with its in-plane basis; only the three
\* axis-aligned branches of the constructor are modelled (integer bases)
stl_plane(px, py, pz, pd) ==
  [x |-> px, y |-> py, z |-> pz, d |-> pd,
   a |-> IF px = 0 /\ py = 0 THEN Vtx(1, 0, 0)
         ELSE IF py = 0 /\ pz = 0 THEN Vtx(0, 1, 0)
         ELSE Vtx(1, 0, 0),
   b |-> IF px = 0 /\ py = 0 THEN Vtx(0, 1, 0)
         ELSE Vtx(0, 0, 1)]

position(pl, vertex) ==
  LET result == pl.x * vertex.x + pl.y * vertex.y + pl.z * vertex.z + pl.d
  IN  IF result > 0 THEN above
      ELSE IF result < 0 THEN below
      ELSE on

intersection(pl, a, b) ==
  LET ab  == Vtx(b.x - a.x, b.y - a.y, b.z - a.z)
      num == -(a.x * pl.x + a.y * pl.y + a.z * pl.z + pl.d)
      den == ab.x * pl.x + ab.y * pl.y + ab.z * pl.z
  IN  Vtx(a.x + Quot(ab.x * num, den),
          a.y + Quot(ab.y * num, den),
          a.z + Quot(ab.z * num, den))

to_2D(pl, vertex, org) ==
  LET ov == Vtx(vertex.x - org.x, vertex.y - org.y, vertex.z - org.z)
  IN  Vtx(dot(pl.a, ov), dot(pl.b, ov), 0)

\* to_3D with the second in-plane coordinate taken from the first
to_3D_one_coordinate(pl, vertex, org) ==
  Vtx(org.x + pl.a.x * vertex.x + pl.b.x * vertex.x,
      org.y + pl.a.y * vertex.x + pl.b.y * vertex.x,
      org.z + pl.a.z * vertex.x + pl.b.z * vertex.x)

to_3D(pl, vertex, org) ==
  Vtx(org.x + pl.a.x * vertex.x + pl.b.x * vertex.y,
      org.y + pl.a.y * vertex.x + pl.b.y * vertex.y,
      org.z + pl.a.z * vertex.x + pl.b.z * vertex.y)

stl_vertex_pair(px, py) == [x |-> px, y |-> py]

\* operator< of stl_vertex_pair: the order of the border set
PairLess(p, q) ==
  IF p.x.x = q.x.x THEN
    IF p.x.y = q.x.y THEN
      IF p.x.z = q.x.z THEN
        IF p.y.x = q.y.x THEN
          IF p.y.y = q.y.y THEN p.y.z < q.y.z
          ELSE p.y.y < q.y.y
        ELSE p.y.x < q.y.x
      ELSE p.x.z < q.x.z
    ELSE p.x.y < q.x.y
  ELSE p.x.x < q.x.x

Facet(a, b, c, n, e) == [vertex |-> <<a, b, c>>, normal |-> n, extra |-> e]

semifacet(original, a, b, c) ==
  [vertex |-> <<a, b, c>>, normal |-> original.normal, extra |-> original.extra]

\* the containers a call of separate works on
Out(u, l, b) == [upper |-> u, lower |-> l, border |-> b]

\* simple_cut with first = upper, second = lower when firstUpper, else swapped
simple_cut(zero, one, two, facet, pl, firstUpper, o) ==
  LET middle == intersection(pl, one, two)
      f1 == semifacet(facet, middle, zero, one)
      f2 == semifacet(facet, middle, two, zero)
      b  == o.border \cup {stl_vertex_pair(one, middle)}
  IN  IF firstUpper
      THEN Out(Append(o.upper, f1), Append(o.lower, f2), b)
      ELSE Out(Append(o.upper, f2), Append(o.lower, f1), b)

\* complex_cut whose last facet ends at zero instead of two_middle
complex_cut_wrong_corner(zero, one, two, facet, pl, firstUpper, o) ==
  LET one_middle == intersection(pl, zero, one)
      two_middle == intersection(pl, zero, two)
      f1 == semifacet(facet, zero, one_middle, two_middle)
      f2 == semifacet(facet, one_middle, one, two)
      f3 == semifacet(facet, one_middle, two, zero)
      b  == o.border \cup {stl_vertex_pair(one_middle, two_middle)}
  IN  IF firstUpper
      THEN Out(Append(o.upper, f1), Append(Append(o.lower, f2), f3), b)
      ELSE Out(Append(Append(o.upper, f2), f3), Append(o.lower, f1), b)

\* complex_cut with first = upper, second = lower when firstUpper, else swapped
complex_cut(zero, one, two, facet, pl, firstUpper, o) ==
  LET one_middle == intersection(pl, zero, one)
      two_middle == intersection(pl, zero, two)
      f1 == semifacet(facet, zero, one_middle, two_middle)
      f2 == semifacet(facet, one_middle, one, two)
      f3 == semifacet(facet, one_middle, two, two_middle)
      b  == o.border \cup {stl_vertex_pair(one_middle, two_middle)}
  IN  IF firstUpper
      THEN Out(Append(o.upper, f1), Append(Append(o.lower, f2), f3), b)
      ELSE Out(Append(Append(o.upper, f2), f3), Append(o.lower, f1), b)

\* vertex[(k+n) % 3] of the program, for the model's indices 1..3
Nxt(k, n) == ((k - 1 + n) % 3) + 1

Count(pos, p) == Cardinality({k \in 1..3 : pos[k] = p})

\* two_on_step that inserts no second edge leaving a vertex
two_on_step_one_per_origin(facet, pos, k, o) ==
  LET ins(e) == IF \E d \in o.border : d.x = e.x THEN o.border ELSE o.border \cup {e}
  IN  IF pos[k] = above THEN
        Out(Append(o.upper, facet), o.lower,
            ins(stl_vertex_pair(facet.vertex[Nxt(k, 1)], facet.vertex[Nxt(k, 2)])))
      ELSE IF pos[k] = below THEN
        Out(o.upper, Append(o.lower, facet),
            ins(stl_vertex_pair(facet.vertex[Nxt(k, 2)], facet.vertex[Nxt(k, 1)])))
      ELSE o

\* one iteration of the loop of the "2 vertexes are on the plane" branch
two_on_step(facet, pos, k, o) ==
  IF pos[k] = above THEN
    Out(Append(o.upper, facet), o.lower,
        o.border \cup {stl_vertex_pair(facet.vertex[Nxt(k, 1)], facet.vertex[Nxt(k, 2)])})
  ELSE IF pos[k] = below THEN
    Out(o.upper, Append(o.lower, facet),
        o.border \cup {stl_vertex_pair(facet.vertex[Nxt(k, 2)], facet.vertex[Nxt(k, 1)])})
  ELSE o

two_on(facet, pos, o) ==
  two_on_step(facet, pos, 3, two_on_step(facet, pos, 2, two_on_step(facet, pos, 1, o)))

\* one_on that sends a facet with two vertices below to the upper half
one_on_wrong_half(facet, pl, pos, o) ==
  LET k      == CHOOSE m \in 1..3 : pos[m] = on /\ \A n \in 1..(m - 1) : pos[n] # on
      zero   == facet.vertex[k]
      one    == facet.vertex[Nxt(k, 1)]
      onepos == pos[Nxt(k, 1)]
      two    == facet.vertex[Nxt(k, 2)]
  IN  IF Count(pos, above) = 2 THEN Out(Append(o.upper, facet), o.lower, o.border)
      ELSE IF Count(pos, below) = 2 THEN Out(Append(o.upper, facet), o.lower, o.border)
      ELSE IF onepos = above THEN simple_cut(zero, one, two, facet, pl, TRUE, o)
      ELSE simple_cut(zero, one, two, facet, pl, FALSE, o)

\* the "1 vertex is on the plane" branch
one_on(facet, pl, pos, o) ==
  LET k      == CHOOSE m \in 1..3 : pos[m] = on /\ \A n \in 1..(m - 1) : pos[n] # on
      zero   == facet.vertex[k]
      one    == facet.vertex[Nxt(k, 1)]
      onepos == pos[Nxt(k, 1)]
      two    == facet.vertex[Nxt(k, 2)]
  IN  IF Count(pos, above) = 2 THEN Out(Append(o.upper, facet), o.lower, o.border)
      ELSE IF Count(pos, below) = 2 THEN Out(o.upper, Append(o.lower, facet), o.border)
      ELSE IF onepos = above THEN simple_cut(zero, one, two, facet, pl, TRUE, o)
      ELSE simple_cut(zero, one, two, facet, pl, FALSE, o)

\* the "no vertexes on the plane" branch
no_on(facet, pl, pos, o) ==
  IF Count(pos, above) = 1 THEN
    LET k == CHOOSE m \in 1..3 : pos[m] = above
    IN  complex_cut(facet.vertex[k], facet.vertex[Nxt(k, 1)], facet.vertex[Nxt(k, 2)],
                    facet, pl, TRUE, o)
  ELSE
    LET k == CHOOSE m \in 1..3 : pos[m] = below
    IN  complex_cut(facet.vertex[k], facet.vertex[Nxt(k, 1)], facet.vertex[Nxt(k, 2)],
                    facet, pl, FALSE, o)

separate(facet, pl, o) ==
  LET pos    == [k \in 1..3 |-> position(pl, facet.vertex[k])]
      aboves == Count(pos, above)
      belows == Count(pos, below)
      ons    == Count(pos, on)
  IN  IF aboves = 3 THEN Out(Append(o.upper, facet), o.lower, o.border)
      ELSE IF belows = 3 THEN Out(o.upper, Append(o.lower, facet), o.border)
      ELSE IF ons = 3 THEN o
      ELSE IF ons = 2 THEN two_on(facet, pos, o)
      ELSE IF ons = 1 THEN one_on(facet, pl, pos, o)
      ELSE no_on(facet, pl, pos, o)

\* is_same that compares the first coordinate only
is_same_x_only(a, b, tol) == 4 * ABS(a.x - b.x) < tol

is_same(a, b, tol) == 4 * ABS(a.x - b.x) < tol /\ 4 * ABS(a.y - b.y) < tol

\* the plane main cuts with
plane == stl_plane(0, 0, 1, 0)


-----------------------------------------------------------------------------
(* The inputs: the meshes the model reads *)

RECURSIVE Fact(_)
Fact(n) == IF n <= 1 THEN 1 ELSE n * Fact(n - 1)

\* x and y are multiples of Step, which every z-difference of two pool
\* vertices divides: the intersection points are integer points
Step == Fact(2 * MaxZ)

Pool == {Vtx(px, py, pz) : px \in {0, Step}, py \in {0, Step}, pz \in (-MaxZ)..MaxZ}

Cross(u, v) ==
  Vtx(u.y * v.z - u.z * v.y, u.z * v.x - u.x * v.z, u.x * v.y - u.y * v.x)

Sub(u, v) == Vtx(u.x - v.x, u.y - v.y, u.z - v.z)

\* an input facet: its normal is the geometric one, its extra bytes are zero
InFacet(a, b, c) == Facet(a, b, c, Cross(Sub(b, a), Sub(c, a)), <<0, 0>>)

\* every mesh of one facet over the pool (degenerate facets included)
Singles == {<<InFacet(a, b, c)>> : a \in Pool, b \in Pool, c \in Pool}

\* an order on vertices, used to list each vertex set once
VLess(u, v) ==
  \/ u.x < v.x
  \/ u.x = v.x /\ u.y < v.y
  \/ u.x = v.x /\ u.y = v.y /\ u.z < v.z

\* the four consistently wound faces of the tetrahedron a b c d
Tetra(a, b, c, d) ==
  <<InFacet(a, b, c), InFacet(a, c, d), InFacet(a, d, b), InFacet(b, d, c)>>

\* the tetrahedra over the pool, each vertex set in both orientations
Tetrahedra ==
  {Tetra(q[1], q[2], q[3], q[4]) :
     q \in {r \in Pool \X Pool \X Pool \X Pool :
              /\ VLess(r[1], r[2]) /\ VLess(r[2], r[3])
              /\ r[4] \notin {r[1], r[2], r[3]}
              /\ VLess(r[1], r[4]) /\ VLess(r[2], r[4])
              /\ dot(Cross(Sub(r[2], r[1]), Sub(r[3], r[1])), Sub(r[4], r[1])) # 0}}

\* the cube of side Step with the plane through its middle, two outward
\* wound triangles per face
Quad(p, q, r, s) == <<InFacet(p, q, r), InFacet(p, r, s)>>

Cube ==
  LET S == Step
      H == Step \div 2
  IN  Quad(Vtx(0, 0, -H), Vtx(S, 0, -H), Vtx(S, 0, H), Vtx(0, 0, H))
      \o Quad(Vtx(S, 0, -H), Vtx(S, S, -H), Vtx(S, S, H), Vtx(S, 0, H))
      \o Quad(Vtx(S, S, -H), Vtx(0, S, -H), Vtx(0, S, H), Vtx(S, S, H))
      \o Quad(Vtx(0, S, -H), Vtx(0, 0, -H), Vtx(0, 0, H), Vtx(0, S, H))
      \o Quad(Vtx(0, 0, -H), Vtx(0, S, -H), Vtx(S, S, -H), Vtx(S, 0, -H))
      \o Quad(Vtx(0, 0, H), Vtx(S, 0, H), Vtx(S, S, H), Vtx(0, S, H))

\* the same cube lifted above the plane, and sunk below it
Shift(f, dz) ==
  [f EXCEPT !.vertex = [k \in 1..3 |-> Vtx(f.vertex[k].x, f.vertex[k].y, f.vertex[k].z + dz)]]

CubeAt(dz) == [k \in 1..Len(Cube) |-> Shift(Cube[k], dz)]

\* the points of the plane the border loops run through
LoopXs == {0, 1, 3}

LoopYs == {0, 3, 6}

LoopPool == {Vtx(px, py, 0) : px \in LoopXs, py \in LoopYs}

\* twice the signed area of the triangle p q r, in the xy-plane
Area2(p, q, r) == (q.x - p.x) * (r.y - p.y) - (q.y - p.y) * (r.x - p.x)

Max(m, n) == IF m < n THEN n ELSE m

\* r lies on the closed segment p q
OnSegment(p, q, r) ==
  /\ Area2(p, q, r) = 0
  /\ STL_MIN(p.x, q.x) <= r.x /\ r.x <= Max(p.x, q.x)
  /\ STL_MIN(p.y, q.y) <= r.y /\ r.y <= Max(p.y, q.y)

Sign(n) == IF n > 0 THEN 1 ELSE IF n < 0 THEN -1 ELSE 0

\* the closed segments p q and r s have a point in common
SegmentsMeet(p, q, r, s) ==
  \/ /\ Sign(Area2(p, q, r)) * Sign(Area2(p, q, s)) < 0
     /\ Sign(Area2(r, s, p)) * Sign(Area2(r, s, q)) < 0
  \/ OnSegment(p, q, r) \/ OnSegment(p, q, s)
  \/ OnSegment(r, s, p) \/ OnSegment(r, s, q)

\* the vertex sequence s is a simple closed polygon: its vertices are
\* distinct, edges that are not neighbours have no point in common, and
\* neighbouring edges share their common vertex only
SimplePolygon(s) ==
  LET n == Len(s)
      V(k) == s[((k - 1) % n) + 1]
  IN  /\ \A k, m \in 1..n : k # m => s[k] # s[m]
      /\ \A k \in 1..n : ~OnSegment(V(k), V(k + 1), V(k + 2))
      /\ \A k \in 1..n : ~OnSegment(V(k + 1), V(k + 2), V(k))
      /\ \A k, m \in 1..n :
           (m > k + 1 /\ ~(k = 1 /\ m = n)) =>
             ~SegmentsMeet(V(k), V(k + 1), V(m), V(m + 1))

\* the loops of n vertices, each listed once: from its least vertex, in the
\* sense that puts the smaller neighbour second
LoopsOf(n) ==
  {s \in [1..n -> LoopPool] :
     /\ \A k \in 2..n : VLess(s[1], s[k])
     /\ VLess(s[2], s[n])
     /\ SimplePolygon(s)}

\* a mesh whose border is the loop s: the edge from s[k] to its successor is
\* the on-plane edge of a facet above the plane (up[k]) or below it
LoopMesh(s, up) ==
  [k \in 1..Len(s) |->
     IF up[k] THEN InFacet(Vtx(0, 0, 1), s[k], s[(k % Len(s)) + 1])
     ELSE InFacet(Vtx(0, 0, -1), s[k], s[(k % Len(s)) + 1])]

LoopMeshes ==
  UNION {{LoopMesh(s, up) : s \in LoopsOf(n), up \in [1..n -> BOOLEAN]} : n \in 3..MaxLoop}

Inputs ==
  Singles \cup Tetrahedra \cup {Cube, CubeAt(Step), CubeAt(-Step), <<>>} \cup LoopMeshes

-----------------------------------------------------------------------------
(* main *)

Unset == "unset"

\* what a read of an element that is not there may yield
GarbageVertices == {Vtx(0, 0, 0), Vtx(Step, 0, 1)}

GarbageTolerances == {0, 4}

GarbageExtras == {<<0, 0>>, <<1, 1>>}

RECURSIVE SortedPairs(_)
\* the elements of a border set in the order its iterator visits them
SortedPairs(b) ==
  IF b = {} THEN <<>>
  ELSE LET m == CHOOSE p \in b : \A q \in b \ {p} : PairLess(p, q)
       IN  <<m>> \o SortedPairs(b \ {m})

Project2D(pl, b, org) ==
  LET s == SortedPairs(b)
  IN  [k \in 1..Len(s) |-> stl_vertex_pair(to_2D(pl, s[k].x, org), to_2D(pl, s[k].y, org))]

EdgeLength(e) == ABS(e.x.x - e.y.x) + ABS(e.x.y - e.y.y)

RECURSIVE MinLength(_, _)
\* the running minimum of the edge lengths of b2[1..k]
MinLength(b2, k) ==
  IF k = 1 THEN EdgeLength(b2[1])
  ELSE STL_MIN(MinLength(b2, k - 1), EdgeLength(b2[k]))

Init ==
  /\ input \in Inputs
  /\ i = 0
  /\ upper = <<>>
  /\ lower = <<>>
  /\ border = {}
  /\ origin = Unset
  /\ tolerance = Unset
  /\ border2d = <<>>
  /\ polyline = <<>>
  /\ triangles = <<>>
  /\ j = 0
  /\ ub = FALSE
  /\ pc = "separate"

\* one iteration of "separate all facets"
Separate ==
  /\ pc = "separate"
  /\ i < Len(input)
  /\ LET o == separate(input[i + 1], plane, Out(upper, lower, border))
     IN  /\ upper' = o.upper
         /\ lower' = o.lower
         /\ border' = o.border
  /\ i' = i + 1
  /\ UNCHANGED <<input, origin, tolerance, border2d, polyline, triangles, j, ub, pc>>

\* "transform the border points coordinates to 2D, get a tolerance"
Project ==
  /\ pc = "separate"
  /\ i = Len(input)
  /\ IF border = {}
     THEN \* *border.begin() of an empty set, and tolerance is never assigned
          /\ ub' = TRUE
          /\ \E crash \in BOOLEAN, g \in GarbageVertices, t \in GarbageTolerances :
               IF crash
               THEN pc' = "crashed" /\ UNCHANGED <<origin, tolerance>>
               ELSE pc' = "seed" /\ origin' = g /\ tolerance' = t \div 4
          /\ UNCHANGED border2d
     ELSE LET org == SortedPairs(border)[1].x
              b2  == Project2D(plane, border, org)
          IN  /\ origin' = org
              /\ border2d' = b2
              /\ tolerance' = (4 * MinLength(b2, Len(b2))) \div 4
              /\ pc' = "seed"
              /\ UNCHANGED ub
  /\ UNCHANGED <<input, i, upper, lower, border, polyline, triangles, j>>

\* the polyline starts with the first edge
Seed ==
  /\ pc = "seed"
  /\ IF border2d = <<>>
     THEN \* front() and pop_front() of an empty deque
          /\ ub' = TRUE
          /\ \E crash \in BOOLEAN, g \in GarbageVertices, h \in GarbageVertices :
               IF crash
               THEN pc' = "crashed" /\ UNCHANGED polyline
               ELSE pc' = "stitch" /\ polyline' = <<Vtx(g.x, g.y, 0), Vtx(h.x, h.y, 0)>>
          /\ UNCHANGED border2d
     ELSE /\ polyline' = <<border2d[1].x, border2d[1].y>>
          /\ border2d' = Tail(border2d)
          /\ pc' = "stitch"
          /\ UNCHANGED ub
  /\ UNCHANGED <<input, i, upper, lower, border, origin, tolerance, triangles, j>>

Erase(s, k) == SubSeq(s, 1, k - 1) \o SubSeq(s, k + 1, Len(s))

Back(s) == s[Len(s)]

\* the remaining edges one of whose ends matches the end of the polyline
Matches ==
  {k \in 1..Len(border2d) :
     \/ is_same(Back(polyline), border2d[k].x, tolerance)
     \/ is_same(Back(polyline), border2d[k].y, tolerance)}

\* one iteration of "sort the edges to make a polygon"
Stitch ==
  /\ pc = "stitch"
  /\ IF Matches # {}
     THEN LET k == CHOOSE m \in Matches : \A n \in Matches : m <= n
          IN  /\ polyline' =
                   IF is_same(Back(polyline), border2d[k].x, tolerance)
                   THEN Append(polyline, border2d[k].y)
                   ELSE Append(polyline, border2d[k].x)
              /\ border2d' = Erase(border2d, k)
              /\ pc' = "stitch"
     ELSE /\ pc' = "trim"
          /\ UNCHANGED <<polyline, border2d>>
  /\ UNCHANGED <<input, i, upper, lower, border, origin, tolerance, triangles, j, ub>>

\* "poly2tri doesn't like this"
Trim ==
  /\ pc = "trim"
  /\ polyline' =
       IF is_same(Back(polyline), polyline[1], tolerance)
       THEN SubSeq(polyline, 1, Len(polyline) - 1)
       ELSE polyline
  /\ pc' = "triangulate"
  /\ UNCHANGED <<input, i, upper, lower, border, origin, tolerance, border2d, triangles, j, ub>>


\* the fan of triangles from vertex k of the polygon
Fan(poly, k) ==
  LET n == Len(poly)
      P(m) == poly[((k - 1 + m) % n) + 1]
  IN  [m \in 1..(n - 2) |-> <<P(0), P(m), P(m + 1)>>]

\* the triangulator: a polygon it can triangulate comes back as triangles
\* on the polygon's own points that cover it once (here: a fan of triangles
\* of one orientation, none of them flat); on any other input it either
\* fails or returns no triangle
Triangulations(poly) ==
  LET fans == {Fan(poly, k) : k \in 1..Len(poly)}
      good == {f \in fans :
                 /\ Len(f) >= 1
                 /\ \A m \in 1..Len(f) : Area2(f[m][1], f[m][2], f[m][3]) # 0
                 /\ \A m \in 1..Len(f) :
                      Sign(Area2(f[m][1], f[m][2], f[m][3]))
                        = Sign(Area2(f[1][1], f[1][2], f[1][3]))}
  IN  IF Len(poly) >= 3 /\ good # {}
      THEN {[ok |-> TRUE, tris |-> f] : f \in good}
      ELSE {[ok |-> TRUE, tris |-> <<>>], [ok |-> FALSE, tris |-> <<>>]}

\* "triangulate"
Triangulate ==
  /\ pc = "triangulate"
  /\ \E r \in Triangulations(polyline) :
       IF r.ok
       THEN triangles' = r.tris /\ pc' = "cap"
       ELSE triangles' = triangles /\ pc' = "crashed"
  /\ UNCHANGED <<input, i, upper, lower, border, origin, tolerance, border2d, polyline, j, ub>>

\* one iteration of "for each triangle, create facet"; the facet's extra
\* bytes are never assigned
Cap ==
  /\ pc = "cap"
  /\ j < Len(triangles)
  /\ \E e \in GarbageExtras :
       LET t  == triangles[j + 1]
           v  == [k \in 1..3 |-> to_3D(plane, Vtx(t[k].x, t[k].y, 0), origin)]
           fl == Facet(v[1], v[2], v[3], Vtx(plane.x, plane.y, plane.z), e)
           fu == Facet(v[1], v[3], v[2], Vtx(-plane.x, -plane.y, -plane.z), e)
       IN  /\ lower' = Append(lower, fl)
           /\ upper' = Append(upper, fu)
  /\ j' = j + 1
  /\ UNCHANGED <<input, i, border, origin, tolerance, border2d, polyline, triangles, ub, pc>>

\* both halves are handed to export_stl
Export ==
  /\ pc = "cap"
  /\ j = Len(triangles)
  /\ pc' = "done"
  /\ UNCHANGED <<input, i, upper, lower, border, origin, tolerance, border2d, polyline,
                 triangles, j, ub>>

Next == Separate \/ Project \/ Seed \/ Stitch \/ Trim \/ Triangulate \/ Cap \/ Export

Spec == Init /\ [][Next]_vars


-----------------------------------------------------------------------------
(* What the claims speak of *)

\* the value of the plane's equation at v: positive above, negative below
Height(v) == plane.x * v.x + plane.y * v.y + plane.z * v.z + plane.d

Heights(f) == [k \in 1..3 |-> Height(f.vertex[k])]

NumOn(f) == Cardinality({k \in 1..3 : Heights(f)[k] = 0})

NumAbove(f) == Cardinality({k \in 1..3 : Heights(f)[k] > 0})

NumBelow(f) == Cardinality({k \in 1..3 : Heights(f)[k] < 0})

\* this step is a call of separate, on facet input[i + 1]
SeparateStep == pc = "separate" /\ i < Len(input) /\ i' = i + 1

\* the separate pass is over and nothing else has happened yet
Separated == pc = "separate" /\ i = Len(input)

\* C1: a facet with no two vertices strictly on opposite sides and at most
\* one vertex on the plane is appended unchanged to the half of its
\* off-plane vertices; the other half and the border set stay as they are
C1_PassThrough ==
  [][SeparateStep =>
       LET f == input[i + 1]
       IN  /\ (NumBelow(f) = 0 /\ NumOn(f) <= 1) =>
                upper' = Append(upper, f) /\ lower' = lower /\ border' = border
           /\ (NumAbove(f) = 0 /\ NumOn(f) <= 1) =>
                lower' = Append(lower, f) /\ upper' = upper /\ border' = border]_vars

\* a facet with two vertices below and one on the plane has gone to the lower
\* half of a run that had already collected facets and border edges
C1_Witness ==
  /\ pc = "separate" /\ i >= 2
  /\ NumBelow(input[i]) = 2 /\ NumOn(input[i]) = 1
  /\ lower # <<>> /\ lower[Len(lower)] = input[i]
  /\ border # {} /\ upper # <<>>

\* the index of the vertex that is alone on its side, for a facet with no
\* vertex on the plane and vertices on both sides
Lone(f) ==
  CHOOSE k \in 1..3 :
    \A m \in 1..3 : m # k => Sign(Heights(f)[m]) = -Sign(Heights(f)[k])

Straddles(f) == NumOn(f) = 0 /\ NumAbove(f) >= 1 /\ NumBelow(f) >= 1

\* twice the area vector of a facet
AreaVector(f) == Cross(Sub(f.vertex[2], f.vertex[1]), Sub(f.vertex[3], f.vertex[1]))

Add(u, v) == Vtx(u.x + v.x, u.y + v.y, u.z + v.z)

\* the facets t1, t2, t3 tile f: they lie in f's plane with f's orientation
\* and their areas add up to f's
Tile(f, t1, t2, t3) ==
  /\ Add(AreaVector(t1), Add(AreaVector(t2), AreaVector(t3))) = AreaVector(f)
  /\ \A t \in {t1, t2, t3} :
       /\ Cross(AreaVector(t), AreaVector(f)) = Vtx(0, 0, 0)
       /\ dot(AreaVector(t), AreaVector(f)) >= 0

\* C5: a facet with no vertex on the plane and vertices on both sides sends
\* (zero, one_middle, two_middle) to the half of its lone vertex zero and
\* (one_middle, one, two), (one_middle, two, two_middle) to the other half;
\* the three tile the facet, and the border set gains the one edge
\* (one_middle, two_middle)
C5_ComplexCut ==
  [][(SeparateStep /\ Straddles(input[i + 1])) =>
       LET f   == input[i + 1]
           k   == Lone(f)
           zero == f.vertex[k]
           one  == f.vertex[Nxt(k, 1)]
           two  == f.vertex[Nxt(k, 2)]
           one_middle == intersection(plane, zero, one)
           two_middle == intersection(plane, zero, two)
           t1 == Facet(zero, one_middle, two_middle, f.normal, f.extra)
           t2 == Facet(one_middle, one, two, f.normal, f.extra)
           t3 == Facet(one_middle, two, two_middle, f.normal, f.extra)
       IN  /\ IF Height(zero) > 0
              THEN upper' = Append(upper, t1) /\ lower' = lower \o <<t2, t3>>
              ELSE lower' = Append(lower, t1) /\ upper' = upper \o <<t2, t3>>
           /\ Tile(f, t1, t2, t3)
           /\ border' = border \cup {stl_vertex_pair(one_middle, two_middle)}
           /\ Cardinality(border' \ border) <= 1]_vars

\* a facet whose lone vertex is below has been cut, in a run that had
\* already collected border edges, and its edge is new to the border set
C5_Witness ==
  /\ pc = "separate" /\ i >= 2
  /\ Straddles(input[i]) /\ Height(input[i].vertex[Lone(input[i])]) < 0
  /\ Len(upper) >= 2 /\ upper[Len(upper)].normal = input[i].normal
  /\ Cardinality(border) >= 2

\* C7 as claimed: both ends of every border edge are on the plane
C7_BorderOnPlane ==
  \A e \in border : Height(e.x) = 0 /\ Height(e.y) = 0

\* every vertex of every facet of the mesh m is strictly above the plane, or
\* every one strictly below
AllAbove(m) == \A k \in 1..Len(m) : NumAbove(m[k]) = 3

AllBelow(m) == \A k \in 1..Len(m) : NumBelow(m[k]) = 3

\* C2 as claimed: a mesh the plane does not meet is cut without a read of an
\* element of the empty border set or of the empty edge list, the run
\* completes, and it ends with one half the input, the other half empty and
\* no cap triangle
C2_NoIntersection ==
  (input # <<>> /\ (AllAbove(input) \/ AllBelow(input))) =>
     /\ ~ub
     /\ pc # "crashed"
     /\ pc = "done" =>
          /\ j = 0 /\ triangles = <<>>
          /\ AllAbove(input) => upper = input /\ lower = <<>>
          /\ AllBelow(input) => lower = input /\ upper = <<>>


\* the border edges' vertices
Verts(b) == {e.x : e \in b} \cup {e.y : e \in b}

\* the edges of b that end or start at v
EdgesAt(b, v) == {e \in b : e.x = v \/ e.y = v}

OtherEnd(e, v) == IF e.x = v THEN e.y ELSE e.x

RECURSIVE Walk(_, _, _)
\* the vertices met from v on, leaving each vertex by an edge not yet used
Walk(b, v, used) ==
  LET out == EdgesAt(b, v) \ used
  IN  IF out = {} THEN <<v>>
      ELSE LET e == CHOOSE d \in out : TRUE
           IN  <<v>> \o Walk(b, OtherEnd(e, v), used \cup {e})

\* the edges of b, each taken in either direction, form one closed loop
\* through n >= 3 distinct vertices of the plane that is a simple polygon
SingleLoop(b) ==
  /\ Cardinality(b) >= 3
  /\ \A v \in Verts(b) : Height(v) = 0
  /\ Cardinality(Verts(b)) = Cardinality(b)
  /\ \A e \in b : e.x # e.y
  /\ \A v \in Verts(b) : Cardinality(EdgesAt(b, v)) = 2
  /\ LET w == Walk(b, CHOOSE v \in Verts(b) : TRUE, {})
     IN  /\ Len(w) = Cardinality(b) + 1
         /\ w[1] = w[Len(w)]
         /\ SimplePolygon(SubSeq(w, 1, Len(w) - 1))

\* two vertices of the loop are joined by a border edge
Joined(b, u, v) == \E e \in b : (e.x = u /\ e.y = v) \/ (e.x = v /\ e.y = u)

\* C3 as claimed: the edges of a border set that is one closed simple loop
\* of n vertices are stitched to a polyline of n vertices that goes once
\* through every vertex of the loop in the loop's order; every edge is used,
\* and the first vertex is not within the tolerance of the last
C3_SingleLoopStitched ==
  (pc = "triangulate" /\ SingleLoop(border)) =>
     LET n == Cardinality(border)
         P(k) == to_3D(plane, polyline[((k - 1) % Len(polyline)) + 1], origin)
     IN  /\ Len(polyline) = n
         /\ {P(k) : k \in 1..n} = Verts(border)
         /\ \A k \in 1..n : Joined(border, P(k), P(k + 1))
         /\ border2d = <<>>
         /\ ~is_same(polyline[1], Back(polyline), tolerance)

\* every directed edge of the mesh m is matched by its reverse in exactly one
\* other facet and repeated in none: m is closed and consistently wound
DirectedEdges(f) == {<<f.vertex[k], f.vertex[Nxt(k, 1)]>> : k \in 1..3}

ClosedMesh(m) ==
  /\ m # <<>>
  /\ \A k \in 1..Len(m) : Cardinality(DirectedEdges(m[k])) = 3
  /\ \A k \in 1..Len(m) : \A d \in DirectedEdges(m[k]) :
       /\ Cardinality({n \in 1..Len(m) : <<d[2], d[1]>> \in DirectedEdges(m[n])}) = 1
       /\ {n \in 1..Len(m) : d \in DirectedEdges(m[n])} = {k}

\* C6 as claimed: the border edges of a closed mesh whose cut is one loop
\* chain head to tail: every border vertex starts exactly one edge and ends
\* exactly one
C6_HeadToTail ==
  (Separated /\ ClosedMesh(input) /\ SingleLoop(border)) =>
     \A v \in Verts(border) :
       /\ Cardinality({e \in border : e.x = v}) = 1
       /\ Cardinality({e \in border : e.y = v}) = 1

\* C10 as claimed: every vertex of every cap triangle of a closed mesh is on
\* the plane
C10_CapOnPlane ==
  (pc = "cap" /\ j >= 1 /\ ClosedMesh(input)) =>
     \A k \in 1..3 :
       /\ Height(lower[Len(lower)].vertex[k]) = 0
       /\ Height(upper[Len(upper)].vertex[k]) = 0

RoundTrip(v, o) == to_3D(plane, to_2D(plane, v, o), o)

\* C8 as claimed: to_3D undoes to_2D on every end of every border edge,
\* whatever the origin
C8_RoundTripAnyOrigin ==
  \A e \in border : \A v \in {e.x, e.y} : \A o \in Pool : RoundTrip(v, o) = v

\* C8, amended: to_3D undoes to_2D on an end v of a border edge for every
\* origin at v's height over the plane; for any other origin the two
\* in-plane coordinates of v come back and the height is the origin's
C8_RoundTripAtHeight ==
  pc \in {"separate", "seed"} =>
  \A e \in border : \A v \in {e.x, e.y} : \A o \in Pool \cup Verts(border) :
    LET r == RoundTrip(v, o)
    IN  /\ Height(o) = Height(v) => r = v
        /\ r.x = v.x /\ r.y = v.y /\ Height(r) = Height(o)

\* the border edges have been projected with an origin that is another
\* vertex than some edge end made by a cut, which the round trip reproduces
C8_Witness ==
  /\ pc = "seed" /\ ~ub
  /\ \E e \in border :
       /\ e.y \notin Verts({d \in border : d # e}) \cup {input[k].vertex[m] : k \in 1..Len(input), m \in 1..3}
       /\ e.y # origin /\ Height(e.y) = Height(origin)
       /\ RoundTrip(e.y, origin) = e.y


RECURSIVE Run(_, _)
\* the containers after separate has been called on the facets of m in turn
Run(m, o) == IF m = <<>> THEN o ELSE Run(Tail(m), separate(m[1], plane, o))

SeqBag(q) == [f \in {q[k] : k \in 1..Len(q)} |-> Cardinality({k \in 1..Len(q) : q[k] = f})]

\* the orders the facets of a mesh of n facets are taken in: every order for
\* n <= 4, else the file's order reversed and its rotations
Orders(n) ==
  IF n <= 4
  THEN {p \in [1..n -> 1..n] : \A k, m \in 1..n : k # m => p[k] # p[m]}
  ELSE {[k \in 1..n |-> n + 1 - k]} \cup {[k \in 1..n |-> ((k - 1 + r) % n) + 1] : r \in 0..(n - 1)}

\* C9: a call of separate only appends to the halves and inserts into the
\* border set, what it appends and inserts is what it gives on empty
\* containers, and when the pass is over the border set and the two halves,
\* as multisets, are those of the pass in any other order of the facets
C9_OrderIndependent ==
  [][SeparateStep =>
       LET alone == separate(input[i + 1], plane, Out(<<>>, <<>>, {}))
       IN  /\ upper' = upper \o alone.upper
           /\ lower' = lower \o alone.lower
           /\ border' = border \cup alone.border
           /\ i' = Len(input) =>
                \A p \in Orders(Len(input)) :
                  LET r == Run([k \in 1..Len(input) |-> input[p[k]]], Out(<<>>, <<>>, {}))
                  IN  /\ r.border = border'
                      /\ SeqBag(r.upper) = SeqBag(upper')
                      /\ SeqBag(r.lower) = SeqBag(lower')]_vars

\* the pass over a mesh of four facets is over; two of its facets made the
\* same border edge, and both halves hold cut facets
C9_Witness ==
  /\ Separated /\ Len(input) = 4
  /\ Cardinality(border) = 3
  /\ \A k \in 1..4 : separate(input[k], plane, Out(<<>>, <<>>, {})).border # {}
  /\ Len(upper) >= 3 /\ Len(lower) >= 3

\* C4 as claimed: the cube cut through its middle gives a polygon of 4
\* vertices and 2 cap triangles in each half, and each of its facets that
\* straddles the plane gives 2 facets to the upper and 2 to the lower half
C4_CubeSquare ==
  [][input = Cube =>
       /\ (SeparateStep /\ Straddles(input[i + 1])) =>
            Len(upper') = Len(upper) + 2 /\ Len(lower') = Len(lower) + 2
       /\ pc' = "triangulate" => Len(polyline') = 4
       /\ pc' = "done" => j' = 2]_vars

\* C4, amended: the cube cut through its middle gives a polygon of 8
\* vertices, the 4 points where the plane meets the cube's upright edges and
\* the 4 where it meets the diagonals of the side faces, each once; each of
\* its facets that straddles the plane gives 3 facets, 1 to the half of its
\* lone vertex and 2 to the other half; every cap triangle goes once to each
\* half, and a triangulation on the polygon's own points has 6 of them
C4_CubeOctagon ==
  [][input = Cube =>
       /\ (SeparateStep /\ Straddles(input[i + 1])) =>
            IF Height(input[i + 1].vertex[Lone(input[i + 1])]) > 0
            THEN Len(upper') = Len(upper) + 1 /\ Len(lower') = Len(lower) + 2
            ELSE Len(upper') = Len(upper) + 2 /\ Len(lower') = Len(lower) + 1
       /\ pc' = "triangulate" =>
            /\ Len(polyline') = 8
            /\ {to_3D(plane, polyline'[k], origin') : k \in 1..8}
                 = {Vtx(px, py, 0) : px \in {0, Step \div 2, Step}, py \in {0, Step \div 2, Step}}
                     \ {Vtx(Step \div 2, Step \div 2, 0)}
            /\ border2d' = <<>>
       /\ (pc = "cap" /\ j' = j + 1) =>
            Len(upper') = Len(upper) + 1 /\ Len(lower') = Len(lower) + 1
       /\ pc' = "done" => j' = 6 /\ Len(upper') = 20 /\ Len(lower') = 20]_vars

\* the cube has been cut and capped
C4_Witness ==
  input = Cube /\ pc = "done" /\ Len(polyline) = 8 /\ ~ub

=============================================================================
